---- MODULE Spec2Model ----
(***************************************************************************)
(* Model of IPython/core/ipapp.py: the IPythonApp startup pipeline.        *)
(*                                                                         *)
(* The three raw configs (default, file, command line) are merged into the *)
(* master config, pre_construct applies the classic/nosep rules, the shell *)
(* is constructed, and post_construct shows the banner and runs the three  *)
(* passes over Global.extensions, Global.exec_lines and Global.exec_files. *)
(***************************************************************************)
EXTENDS Integers, Sequences, FiniteSets, TLC

(***************************************************************************)
(* Values held by a Config.  Python values are dynamically typed; every    *)
(* value is a record of the same shape so that any two can be compared.    *)
(*   t = "bool" | "int" | "str" | "list" | "unset"                         *)
(***************************************************************************)
VBool(b) == [t |-> "bool", n |-> IF b THEN 1 ELSE 0, s |-> "", l |-> <<>>]
VInt(i)  == [t |-> "int",  n |-> i, s |-> "", l |-> <<>>]
VStr(x)  == [t |-> "str",  n |-> 0, s |-> x,  l |-> <<>>]
VList(q) == [t |-> "list", n |-> 0, s |-> "", l |-> q]

\* The sentinel every cl_args row uses as its argparse default.
NoConfigDefault == [t |-> "unset", n |-> 0, s |-> "", l |-> <<>>]

\* Python's truth value of an object: `if config.Global.classic:`.
Truthy(v) ==
    CASE v.t \in {"bool", "int"} -> v.n # 0
      [] v.t = "str"             -> v.s # ""
      [] v.t = "list"            -> v.l # <<>>
      [] OTHER                   -> TRUE

\* Python's ==: bool is a subclass of int, so False == 0 and True == 1.
PyEq(a, b) ==
    IF a.t \in {"bool", "int"} /\ b.t \in {"bool", "int"}
    THEN a.n = b.n
    ELSE a = b

\* Whether `for x in v` can enumerate v (a list can, a number cannot).
Iterable(v) == v.t = "list"

(***************************************************************************)
(* Config: section -> key -> value.  Sections are created on first access, *)
(* so both sections always exist; a key is in the section's DOMAIN or not. *)
(***************************************************************************)
NoKeys == [k \in {} |-> NoConfigDefault]

Config == [Global |-> NoKeys, InteractiveShell |-> NoKeys]

Sections == {"Global", "InteractiveShell"}

hasattr(section, key) == key \in DOMAIN section

setattr(section, key, v) ==
    [k \in DOMAIN section \cup {key} |-> IF k = key THEN v ELSE section[k]]

delattr(section, key) == [k \in DOMAIN section \ {key} |-> section[k]]

(***************************************************************************)
(* The command line.  cl_args is the argument table, in the order of the   *)
(* source; only the rows whose options the model's command lines use are   *)
(* kept.  Every row names NoConfigDefault as its default.                  *)
(***************************************************************************)
Row(flags, section, key, action, default) ==
    [flags |-> flags, section |-> section, key |-> key,
     action |-> action, default |-> default]

\* The table with argparse's own defaults: what the rows would hold if
\* `default=NoConfigDefault` were left out of the flag rows.
cl_args_own_defaults ==
    << Row({"-banner"},   "Global", "display_banner", "store_true",  VBool(FALSE)),
       Row({"-nobanner"}, "Global", "display_banner", "store_false", VBool(TRUE)),
       Row({"-classic"},  "Global", "classic",        "store_true",  VBool(FALSE)),
       Row({"-colors"},   "InteractiveShell", "colors", "store",     NoConfigDefault),
       Row({"-quick"},    "Global", "quick",          "store_true",  VBool(FALSE)),
       Row({"-separate_in", "-si"}, "InteractiveShell", "separate_in", "store",
           NoConfigDefault),
       Row({"-nosep"},    "Global", "nosep",          "store_true",  VBool(FALSE)),
       Row({"-ext"},      "Global", "extra_extension", "store",      NoConfigDefault),
       Row({"-pylab", "-wthread", "-qthread", "-q4thread", "-gthread"},
           "Global", "threaded_shell", "store_true", VBool(FALSE)) >>

cl_args ==
    << Row({"-banner"},   "Global", "display_banner", "store_true",  NoConfigDefault),
       Row({"-nobanner"}, "Global", "display_banner", "store_false", NoConfigDefault),
       Row({"-classic"},  "Global", "classic",        "store_true",  NoConfigDefault),
       Row({"-colors"},   "InteractiveShell", "colors", "store",     NoConfigDefault),
       Row({"-quick"},    "Global", "quick",          "store_true",  NoConfigDefault),
       Row({"-separate_in", "-si"}, "InteractiveShell", "separate_in", "store",
           NoConfigDefault),
       Row({"-nosep"},    "Global", "nosep",          "store_true",  NoConfigDefault),
       Row({"-ext"},      "Global", "extra_extension", "store",      NoConfigDefault),
       Row({"-pylab", "-wthread", "-qthread", "-q4thread", "-gthread"},
           "Global", "threaded_shell", "store_true", NoConfigDefault) >>

\* A command-line token: a flag and, for a `store` row, its argument.
Token(flag, arg) == [flag |-> flag, arg |-> arg]

RowsOf(section, key) ==
    {i \in 1..Len(cl_args) : cl_args[i].section = section /\ cl_args[i].key = key}

FirstRow(S) == CHOOSE i \in S : \A j \in S : i <= j

\* The value a token stores in its row's dest.
Stored(row, tok) ==
    CASE row.action = "store_true"  -> VBool(TRUE)
      [] row.action = "store_false" -> VBool(FALSE)
      [] OTHER                      -> VStr(tok.arg)

\* argparse: a dest starts at the default of its first row, and each token
\* of the command line, left to right, overwrites the dest of its row.
RECURSIVE ParsedValue(_, _, _)
ParsedValue(section, key, argv) ==
    IF argv = <<>>
    THEN cl_args[FirstRow(RowsOf(section, key))].default
    ELSE LET tok  == argv[Len(argv)]
             hits == {i \in RowsOf(section, key) : tok.flag \in cl_args[i].flags}
         IN  IF hits # {}
             THEN Stored(cl_args[FirstRow(hits)], tok)
             ELSE ParsedValue(section, key, SubSeq(argv, 1, Len(argv) - 1))

DestKeys(section) ==
    {cl_args[i].key : i \in {j \in 1..Len(cl_args) : cl_args[j].section = section}}

\* The loader's conversion of the parsed namespace to a Config: a dest whose
\* value is still NoConfigDefault is left out.
ParsedSection(section, argv) ==
    LET present == {k \in DestKeys(section) :
                        ParsedValue(section, k, argv) # NoConfigDefault}
    IN  [k \in present |-> ParsedValue(section, k, argv)]

IPythonAppCLConfigLoader(argv) ==
    [Global           |-> ParsedSection("Global", argv),
     InteractiveShell |-> ParsedSection("InteractiveShell", argv)]

(***************************************************************************)
(* merge_configs of the base Application: default, then file, then command *)
(* line are merged into an empty Config, a later value replacing an        *)
(* earlier one key by key.                                                 *)
(***************************************************************************)
MergeSection(low, high) ==
    [k \in DOMAIN low \cup DOMAIN high |-> IF k \in DOMAIN high THEN high[k] ELSE low[k]]

Merge(low, high) ==
    [Global           |-> MergeSection(low.Global, high.Global),
     InteractiveShell |-> MergeSection(low.InteractiveShell, high.InteractiveShell)]

merge_configs(dflt, file, cl) == Merge(Merge(Merge(Config, dflt), file), cl)

(***************************************************************************)
(* State.                                                                  *)
(***************************************************************************)
VARIABLES
    pc,                   \* the stage (method of IPythonApp) to run next
    argv,                 \* the process's command line, a sequence of tokens
    file_on_disk,         \* what loading the configuration file yields
    default_config,
    command_line_config,
    file_config,
    master_config,
    shell,                \* the InteractiveShell: [exists, display_banner]
    sys_path,
    idx,                  \* position of the running pass in its action list
    log,                  \* calls made to the shell, filefind and the loggers
    deprecation_warnings  \* number of threaded_shell_warning() calls

vars == <<pc, argv, file_on_disk, default_config, command_line_config,
          file_config, master_config, shell, sys_path, idx, log,
          deprecation_warnings>>

inputs == <<argv, file_on_disk>>

raw_configs == <<default_config, command_line_config, file_config>>

\* Application.log_level, which create_default_config copies into the
\* default config (logging.WARN).
log_level == 30

(***************************************************************************)
(* Log entries: a call with its argument and how it ended.                 *)
(***************************************************************************)
Call(f, arg, result) == [ev |-> f, msg |-> "", arg |-> arg, result |-> result]

Warn(msg, arg) == [ev |-> "log.warn", msg |-> msg, arg |-> arg, result |-> "ok"]

showtraceback == [ev |-> "showtraceback", msg |-> "", arg |-> "", result |-> "ok"]

Outcome(raises) == IF raises THEN "raises" ELSE "ok"

(***************************************************************************)
(* Application.start runs the stages in this order; attempt() aborts the   *)
(* application when a stage raises.                                        *)
(***************************************************************************)
Stages ==
    << "create_default_config", "load_command_line_config",
       "post_load_command_line_config", "load_file_config",
       "post_load_file_config", "merge_configs", "pre_construct",
       "construct", "post_construct", "start_app" >>

StageIndex(stage) == CHOOSE i \in 1..Len(Stages) : Stages[i] = stage

NextStage(stage) ==
    IF StageIndex(stage) < Len(Stages) THEN Stages[StageIndex(stage) + 1] ELSE "mainloop"

(***************************************************************************)
(* The stages before the shell exists, as functions of the configs.        *)
(***************************************************************************)
DefaultConfig ==
    [Global |-> setattr(setattr(NoKeys, "display_banner", VBool(TRUE)),
                        "log_level", VInt(log_level)),
     InteractiveShell |-> NoKeys]

\* post_load_command_line_config leaving the key where it is.
threaded_shell_kept(clc) == clc

\* post_load_command_line_config: the command-line config it leaves.
threaded_shell_removed(clc) ==
    IF hasattr(clc.Global, "threaded_shell")
    THEN [clc EXCEPT !.Global = delattr(clc.Global, "threaded_shell")]
    ELSE clc

\* load_file_config that never looks at Global.quick.
loaded_file_config_ignoring_quick(clc, on_disk) == on_disk

\* load_file_config whose quick rule drops the file's settings but keeps
\* its extension list.
loaded_file_config_keeping_extensions(clc, on_disk) ==
    IF hasattr(clc.Global, "quick") /\ Truthy(clc.Global.quick)
    THEN IF hasattr(on_disk.Global, "extensions")
         THEN [Config EXCEPT !.Global =
                  setattr(NoKeys, "extensions", on_disk.Global.extensions)]
         ELSE Config
    ELSE on_disk

\* load_file_config: the file config it sets.
loaded_file_config(clc, on_disk) ==
    IF hasattr(clc.Global, "quick") /\ Truthy(clc.Global.quick)
    THEN Config
    ELSE on_disk

\* post_load_file_config: whether `.append` is reached on a value that has
\* no such method (the stage then raises, before the `del`).
post_load_file_config_raises(fc, clc) ==
    /\ hasattr(clc.Global, "extra_extension")
    /\ hasattr(fc.Global, "extensions")
    /\ fc.Global.extensions.t # "list"

\* post_load_file_config that starts a new list whether or not the file
\* config has one.
extra_extension_in_new_list(fc, clc) ==
    IF hasattr(clc.Global, "extra_extension")
    THEN [fc EXCEPT !.Global =
            setattr(fc.Global, "extensions",
                    VList(<<clc.Global.extra_extension.s>>))]
    ELSE fc

\* post_load_file_config: the file config it leaves.
extra_extension_appended(fc, clc) ==
    IF hasattr(clc.Global, "extra_extension")
    THEN LET had == IF hasattr(fc.Global, "extensions")
                    THEN fc.Global.extensions.l
                    ELSE <<>>
         IN  [fc EXCEPT !.Global =
                setattr(fc.Global, "extensions",
                        VList(Append(had, clc.Global.extra_extension.s)))]
    ELSE fc

\* post_load_file_config: the command-line config it leaves.
extra_extension_removed(clc) ==
    IF hasattr(clc.Global, "extra_extension")
    THEN [clc EXCEPT !.Global = delattr(clc.Global, "extra_extension")]
    ELSE clc

\* The classic rule without its last assignment.
classic_rule_without_xmode(config) ==
    IF hasattr(config.Global, "classic") /\ Truthy(config.Global.classic)
    THEN LET s1  == setattr(config.InteractiveShell, "cache_size", VInt(0))
             s2  == setattr(s1,  "pprint", VInt(0))
             s3  == setattr(s2,  "prompt_in1", VStr(">>> "))
             s4  == setattr(s3,  "prompt_in2", VStr("... "))
             s5  == setattr(s4,  "prompt_out", VStr(""))
             s6  == setattr(s5,  "separate_in", VStr(""))
             s7  == setattr(s6,  "separate_out", VStr(""))
             s8  == setattr(s7,  "separate_out2", VStr(""))
             s9  == setattr(s8,  "colors", VStr("NoColor"))
         IN  [config EXCEPT !.InteractiveShell = s9]
    ELSE config

\* The classic rule giving way to a value a source has set: it fills in
\* only the keys that are still absent.
classic_rule_keeping_overrides(config) ==
    IF hasattr(config.Global, "classic") /\ Truthy(config.Global.classic)
    THEN LET classic == [cache_size    |-> VInt(0),
                         pprint        |-> VInt(0),
                         prompt_in1    |-> VStr(">>> "),
                         prompt_in2    |-> VStr("... "),
                         prompt_out    |-> VStr(""),
                         separate_in   |-> VStr(""),
                         separate_out  |-> VStr(""),
                         separate_out2 |-> VStr(""),
                         colors        |-> VStr("NoColor"),
                         xmode         |-> VStr("Plain")]
         IN  [config EXCEPT !.InteractiveShell =
                 [k \in DOMAIN classic \cup DOMAIN config.InteractiveShell |->
                     IF k \in DOMAIN config.InteractiveShell
                     THEN config.InteractiveShell[k]
                     ELSE classic[k]]]
    ELSE config

\* pre_construct: the classic rule.
classic_rule(config) ==
    IF hasattr(config.Global, "classic") /\ Truthy(config.Global.classic)
    THEN LET s1  == setattr(config.InteractiveShell, "cache_size", VInt(0))
             s2  == setattr(s1,  "pprint", VInt(0))
             s3  == setattr(s2,  "prompt_in1", VStr(">>> "))
             s4  == setattr(s3,  "prompt_in2", VStr("... "))
             s5  == setattr(s4,  "prompt_out", VStr(""))
             s6  == setattr(s5,  "separate_in", VStr(""))
             s7  == setattr(s6,  "separate_out", VStr(""))
             s8  == setattr(s7,  "separate_out2", VStr(""))
             s9  == setattr(s8,  "colors", VStr("NoColor"))
             s10 == setattr(s9,  "xmode", VStr("Plain"))
         IN  [config EXCEPT !.InteractiveShell = s10]
    ELSE config

\* The nosep rule applied whenever Global.nosep is present, whatever its
\* value.
nosep_rule_on_presence(config) ==
    IF hasattr(config.Global, "nosep")
    THEN LET s1 == setattr(config.InteractiveShell, "separate_in", VStr("0"))
             s2 == setattr(s1, "separate_out", VStr("0"))
             s3 == setattr(s2, "separate_out2", VStr("0"))
         IN  [config EXCEPT !.InteractiveShell = s3]
    ELSE config

\* The nosep rule applied whether or not Global.nosep is set.
nosep_rule_unguarded(config) ==
    LET s1 == setattr(config.InteractiveShell, "separate_in", VStr("0"))
        s2 == setattr(s1, "separate_out", VStr("0"))
        s3 == setattr(s2, "separate_out2", VStr("0"))
    IN  [config EXCEPT !.InteractiveShell = s3]

\* pre_construct: the nosep rule.
nosep_rule(config) ==
    IF hasattr(config.Global, "nosep") /\ Truthy(config.Global.nosep)
    THEN LET s1 == setattr(config.InteractiveShell, "separate_in", VStr("0"))
             s2 == setattr(s1, "separate_out", VStr("0"))
             s3 == setattr(s2, "separate_out2", VStr("0"))
         IN  [config EXCEPT !.InteractiveShell = s3]
    ELSE config

\* pre_construct with the two rules in the other order.
pre_construct_nosep_first(config) == classic_rule(nosep_rule(config))

pre_construct_result(config) == nosep_rule(classic_rule(config))

(***************************************************************************)
(* The stage actions.  Abort is what attempt() does with a raising stage.  *)
(***************************************************************************)
Abort == pc' = "aborted"

create_default_config ==
    /\ pc = "create_default_config"
    /\ default_config' = DefaultConfig
    /\ pc' = NextStage(pc)
    /\ UNCHANGED <<inputs, command_line_config, file_config, master_config,
                   shell, sys_path, idx, log, deprecation_warnings>>

load_command_line_config ==
    /\ pc = "load_command_line_config"
    /\ command_line_config' = IPythonAppCLConfigLoader(argv)
    /\ pc' = NextStage(pc)
    /\ UNCHANGED <<inputs, default_config, file_config, master_config,
                   shell, sys_path, idx, log, deprecation_warnings>>

post_load_command_line_config ==
    /\ pc = "post_load_command_line_config"
    /\ deprecation_warnings' =
          IF hasattr(command_line_config.Global, "threaded_shell")
          THEN deprecation_warnings + 1
          ELSE deprecation_warnings
    /\ command_line_config' = threaded_shell_removed(command_line_config)
    /\ pc' = NextStage(pc)
    /\ UNCHANGED <<inputs, default_config, file_config, master_config,
                   shell, sys_path, idx, log>>

load_file_config ==
    /\ pc = "load_file_config"
    /\ file_config' = loaded_file_config(command_line_config, file_on_disk)
    /\ pc' = NextStage(pc)
    /\ UNCHANGED <<inputs, default_config, command_line_config, master_config,
                   shell, sys_path, idx, log, deprecation_warnings>>

post_load_file_config ==
    /\ pc = "post_load_file_config"
    /\ IF post_load_file_config_raises(file_config, command_line_config)
       THEN /\ Abort
            /\ UNCHANGED <<file_config, command_line_config>>
       ELSE /\ file_config' = extra_extension_appended(file_config, command_line_config)
            /\ command_line_config' = extra_extension_removed(command_line_config)
            /\ pc' = NextStage(pc)
    /\ UNCHANGED <<inputs, default_config, master_config, shell, sys_path,
                   idx, log, deprecation_warnings>>

merge_configs_stage ==
    /\ pc = "merge_configs"
    /\ master_config' = merge_configs(default_config, file_config, command_line_config)
    /\ pc' = NextStage(pc)
    /\ UNCHANGED <<inputs, raw_configs, shell, sys_path, idx, log,
                   deprecation_warnings>>

\* pre_construct that goes on to build the shell itself, ahead of the
\* construct stage.
pre_construct_calling_construct ==
    /\ pc = "pre_construct"
    /\ master_config' = pre_construct_result(master_config)
    /\ sys_path' = <<"">> \o sys_path
    /\ shell' = [exists |-> TRUE, display_banner |-> FALSE]
    /\ pc' = NextStage(pc)
    /\ UNCHANGED <<inputs, raw_configs, idx, log, deprecation_warnings>>

pre_construct ==
    /\ pc = "pre_construct"
    /\ master_config' = pre_construct_result(master_config)
    /\ pc' = NextStage(pc)
    /\ UNCHANGED <<inputs, raw_configs, shell, sys_path, idx, log,
                   deprecation_warnings>>

\* InteractiveShell(parent=None, config=master_config) returns a shell or
\* raises; the shell's own display_banner is whatever the constructor set.
\* construct whose failure is swallowed: the application goes on to
\* post_construct without a shell.
construct_swallowing_failure ==
    /\ pc = "construct"
    /\ sys_path' = <<"">> \o sys_path
    /\ \E built \in BOOLEAN, banner \in BOOLEAN :
          IF built
          THEN shell' = [exists |-> TRUE, display_banner |-> banner]
          ELSE shell' = shell
    /\ pc' = NextStage(pc)
    /\ UNCHANGED <<inputs, raw_configs, master_config, idx, log,
                   deprecation_warnings>>

construct ==
    /\ pc = "construct"
    /\ sys_path' = <<"">> \o sys_path
    /\ \E built \in BOOLEAN, banner \in BOOLEAN :
          IF built
          THEN /\ shell' = [exists |-> TRUE, display_banner |-> banner]
               /\ pc' = NextStage(pc)
          ELSE /\ shell' = shell
               /\ Abort
    /\ UNCHANGED <<inputs, raw_configs, master_config, idx, log,
                   deprecation_warnings>>

(***************************************************************************)
(* post_construct: the banner, then the three passes.                      *)
(***************************************************************************)
\* post_construct calling _run_exec_lines first and never _load_extensions.
post_construct_without_extensions ==
    /\ pc = "post_construct"
    /\ shell' = [shell EXCEPT !.display_banner = FALSE]
    /\ log' = IF Truthy(master_config.Global.display_banner)
              THEN Append(log, Call("show_banner", "", "ok"))
              ELSE log
    /\ pc' = "_run_exec_lines"
    /\ idx' = 1
    /\ UNCHANGED <<inputs, raw_configs, master_config, sys_path,
                   deprecation_warnings>>

\* post_construct that leaves the shell's own banner switch as constructed.
post_construct_keeping_shell_banner ==
    /\ pc = "post_construct"
    /\ shell' = shell
    /\ log' = IF Truthy(master_config.Global.display_banner)
              THEN Append(log, Call("show_banner", "", "ok"))
              ELSE log
    /\ pc' = "_load_extensions"
    /\ idx' = 1
    /\ UNCHANGED <<inputs, raw_configs, master_config, sys_path,
                   deprecation_warnings>>

post_construct ==
    /\ pc = "post_construct"
    /\ IF hasattr(master_config.Global, "display_banner")
       THEN /\ shell' = [shell EXCEPT !.display_banner = FALSE]
            /\ log' = IF Truthy(master_config.Global.display_banner)
                      THEN Append(log, Call("show_banner", "", "ok"))
                      ELSE log
            /\ pc' = "_load_extensions"
            /\ idx' = 1
       ELSE /\ shell' = [shell EXCEPT !.display_banner = FALSE]
            /\ Abort
            /\ UNCHANGED <<log, idx>>
    /\ UNCHANGED <<inputs, raw_configs, master_config, sys_path,
                   deprecation_warnings>>

\* File names as character sequences, for str.endswith.
Chars ==
    [f \in {"a.py", "b.ipy", "c.txt", "d.py", "e.ipy", ".py", ".ipy"} |->
        CASE f = "a.py"  -> <<"a", ".", "p", "y">>
          [] f = "b.ipy" -> <<"b", ".", "i", "p", "y">>
          [] f = "c.txt" -> <<"c", ".", "t", "x", "t">>
          [] f = "d.py"  -> <<"d", ".", "p", "y">>
          [] f = "e.ipy" -> <<"e", ".", "i", "p", "y">>
          [] f = ".py"   -> <<".", "p", "y">>
          [] f = ".ipy"  -> <<".", "i", "p", "y">>]

endswith(str, suffix) ==
    /\ Len(suffix) <= Len(str)
    /\ SubSeq(str, Len(str) - Len(suffix) + 1, Len(str)) = suffix

\* filefind(fname, ['.', ipythondir]) when it finds the file: the path in
\* the current directory.
full_filename(fname) == <<".", "/">> \o Chars[fname]

\* The loop's turn without the inner try: a raising load_extension leaves
\* the loop.
load_extension_turn_unguarded(ext, raises) ==
    [events  |-> <<Call("load_extension", ext, Outcome(raises))>>,
     escapes |-> raises]

\* One turn of the loop of _load_extensions: what it logs, and whether an
\* exception leaves the loop.
load_extension_turn(ext, raises) ==
    [events  |-> <<Call("load_extension", ext, Outcome(raises))>> \o
                 (IF raises
                  THEN <<Warn("Error in loading extension: %s", ext), showtraceback>>
                  ELSE <<>>),
     escapes |-> FALSE]

\* One turn of the loop of _run_exec_lines.
runlines_turn(line, raises) ==
    [events  |-> <<Call("runlines", line, Outcome(raises))>> \o
                 (IF raises
                  THEN <<Warn("Error in executing line in user namespace: %s", line),
                         showtraceback>>
                  ELSE <<>>),
     escapes |-> FALSE]

\* The dispatch with 'py' and 'ipy' tested without their dot.
dispatch_without_dot(fname) ==
    IF endswith(full_filename(fname), <<"p", "y">>) THEN "safe_execfile"
    ELSE IF endswith(full_filename(fname), <<"i", "p", "y">>) THEN "safe_execfile_ipy"
    ELSE "log.warn"

\* How the file of one turn of _run_exec_files is dispatched.
dispatch(fname) ==
    IF endswith(full_filename(fname), Chars[".py"]) THEN "safe_execfile"
    ELSE IF endswith(full_filename(fname), Chars[".ipy"]) THEN "safe_execfile_ipy"
    ELSE "log.warn"

\* One turn of the loop of _run_exec_files.  found: "raises" (filefind finds
\* nothing and raises), "not_a_file" (os.path.isfile is false) or "file".
exec_file_turn(fname, found, raises) ==
    IF found = "raises"
    THEN [events |-> <<Call("filefind", fname, "raises")>>, escapes |-> TRUE]
    ELSE IF found = "not_a_file"
    THEN [events |-> <<Call("filefind", fname, "not_a_file")>>, escapes |-> FALSE]
    ELSE IF dispatch(fname) = "log.warn"
    THEN [events  |-> <<Call("filefind", fname, "file"),
                        Warn("File does not have a .py or .ipy extension: <%s>", fname)>>,
          escapes |-> FALSE]
    ELSE [events  |-> <<Call("filefind", fname, "file"),
                        Call(dispatch(fname), fname, Outcome(raises))>>,
          escapes |-> raises]

\* The handler of a pass's outer try.
unknown_error(msg) == <<Warn(msg, ""), showtraceback>>

\* The loop's turn of the pass over Global[key] for one action.
Turn(key, action, found, raises) ==
    CASE key = "extensions" -> load_extension_turn(action, raises)
      [] key = "exec_lines" -> runlines_turn(action, raises)
      [] key = "exec_files" -> exec_file_turn(action, found, raises)

\* A pass without the handler of its outer try: what the handler would
\* have caught leaves post_construct, and attempt() aborts the application.
RunPass_without_outer_try(key, msg, after) ==
    LET G == master_config.Global IN
    IF ~hasattr(G, key)
    THEN /\ pc' = after /\ idx' = 1 /\ log' = log
    ELSE IF ~Iterable(G[key])
    THEN /\ Abort /\ idx' = idx /\ log' = log
    ELSE IF idx > Len(G[key].l)
    THEN /\ pc' = after /\ idx' = 1 /\ log' = log
    ELSE \E found \in {"raises", "not_a_file", "file"}, raises \in BOOLEAN :
            LET turn == Turn(key, G[key].l[idx], found, raises)
            IN  IF turn.escapes
                THEN /\ Abort /\ idx' = idx
                     /\ log' = log \o turn.events
                ELSE /\ pc' = pc /\ idx' = idx + 1
                     /\ log' = log \o turn.events

\* A pass that reads its key without asking for it first: the lookup of an
\* absent key raises into the outer handler.
RunPass_without_hasattr(key, msg, after) ==
    LET G == master_config.Global IN
    IF ~hasattr(G, key) \/ ~Iterable(G[key])
    THEN /\ pc' = after /\ idx' = 1 /\ log' = log \o unknown_error(msg)
    ELSE IF idx > Len(G[key].l)
    THEN /\ pc' = after /\ idx' = 1 /\ log' = log
    ELSE \E found \in {"raises", "not_a_file", "file"}, raises \in BOOLEAN :
            LET turn == Turn(key, G[key].l[idx], found, raises)
            IN  IF turn.escapes
                THEN /\ pc' = after /\ idx' = 1
                     /\ log' = log \o turn.events \o unknown_error(msg)
                ELSE /\ pc' = pc /\ idx' = idx + 1
                     /\ log' = log \o turn.events

\* A pass over master_config.Global[key].  The pass returns (pc becomes `after`) when the key is absent,
\* when the list is exhausted, and from the handler of the outer try: when
\* the list cannot be enumerated or an exception leaves the loop.
RunPass(key, msg, after) ==
    LET G == master_config.Global IN
    IF ~hasattr(G, key)
    THEN /\ pc' = after /\ idx' = 1 /\ log' = log
    ELSE IF ~Iterable(G[key])
    THEN /\ pc' = after /\ idx' = 1 /\ log' = log \o unknown_error(msg)
    ELSE IF idx > Len(G[key].l)
    THEN /\ pc' = after /\ idx' = 1 /\ log' = log
    ELSE \E found \in {"raises", "not_a_file", "file"}, raises \in BOOLEAN :
            LET turn == Turn(key, G[key].l[idx], found, raises)
            IN  IF turn.escapes
                THEN /\ pc' = after /\ idx' = 1
                     /\ log' = log \o turn.events \o unknown_error(msg)
                ELSE /\ pc' = pc /\ idx' = idx + 1
                     /\ log' = log \o turn.events

_load_extensions ==
    /\ pc = "_load_extensions"
    /\ RunPass("extensions", "Unknown error in loading extensions:", "_run_exec_lines")
    /\ UNCHANGED <<inputs, raw_configs, master_config, shell, sys_path,
                   deprecation_warnings>>

_run_exec_lines ==
    /\ pc = "_run_exec_lines"
    /\ RunPass("exec_lines", "Unknown error in handling Global.exec_lines:",
               "_run_exec_files")
    /\ UNCHANGED <<inputs, raw_configs, master_config, shell, sys_path,
                   deprecation_warnings>>

\* _run_exec_files without its outer try: what the handler would have
\* caught leaves post_construct, and attempt() aborts the application.
_run_exec_files_unguarded ==
    /\ pc = "_run_exec_files"
    /\ LET G == master_config.Global IN
       IF hasattr(G, "exec_files") /\ ~Iterable(G.exec_files)
       THEN Abort /\ UNCHANGED <<idx, log>>
       ELSE IF hasattr(G, "exec_files") /\ idx <= Len(G.exec_files.l)
       THEN \E found \in {"raises", "not_a_file", "file"}, raises \in BOOLEAN :
               LET turn == exec_file_turn(G.exec_files.l[idx], found, raises)
               IN  /\ log' = log \o turn.events
                   /\ IF turn.escapes
                      THEN Abort /\ idx' = idx
                      ELSE pc' = pc /\ idx' = idx + 1
       ELSE pc' = "start_app" /\ idx' = 1 /\ log' = log
    /\ UNCHANGED <<inputs, raw_configs, master_config, shell, sys_path,
                   deprecation_warnings>>

_run_exec_files ==
    /\ pc = "_run_exec_files"
    /\ RunPass("exec_files", "Unknown error in handling Global.exec_files:",
               "start_app")
    /\ UNCHANGED <<inputs, raw_configs, master_config, shell, sys_path,
                   deprecation_warnings>>

start_app ==
    /\ pc = "start_app"
    /\ log' = Append(log, Call("mainloop", "", "ok"))
    /\ pc' = "mainloop"
    /\ UNCHANGED <<inputs, raw_configs, master_config, shell, sys_path, idx,
                   deprecation_warnings>>

(***************************************************************************)
(* Inputs: the command line and the configuration file.                    *)
(***************************************************************************)
\* Longest Global.extensions, Global.exec_lines and Global.exec_files a
\* configuration file holds.
MaxExtensions == 2
MaxLines == 2
MaxFiles == 3

ExtensionNames == <<"a", "b", "c", "d">>
LineTexts == <<"p", "q", "r", "s">>
FileNames == <<"a.py", "c.txt", "b.ipy", "d.py", "e.ipy">>

\* Every option of the model's command lines, in the order they are passed.
AllTokens ==
    << Token("-banner", ""), Token("-nobanner", ""), Token("-classic", ""),
       Token("-colors", "Linux"), Token("-quick", ""), Token("-si", "s"),
       Token("-nosep", ""), Token("-ext", "x"), Token("-pylab", "") >>

RECURSIVE Select(_, _)
Select(tokens, flags) ==
    IF tokens = <<>> THEN <<>>
    ELSE (IF Head(tokens).flag \in flags THEN <<Head(tokens)>> ELSE <<>>)
         \o Select(Tail(tokens), flags)

CommandLines(flags) == {Select(AllTokens, F) : F \in SUBSET flags}

\* A key's possible settings in a file; NoConfigDefault stands for a file
\* that does not set the key.
Lists(names, max) ==
    {NoConfigDefault, VInt(5)} \cup {VList(SubSeq(names, 1, n)) : n \in 0..max}

Section(settings) ==
    [k \in {j \in DOMAIN settings : settings[j] # NoConfigDefault} |-> settings[k]]

\* Files that differ in the three action lists.
ActionFiles ==
    {[Global |-> Section([extensions |-> e, exec_lines |-> l, exec_files |-> f]),
      InteractiveShell |-> NoKeys] :
        e \in Lists(ExtensionNames, MaxExtensions),
        l \in Lists(LineTexts, MaxLines),
        f \in Lists(FileNames, MaxFiles)}

\* Files that differ in the settings the merge and pre_construct read.
SettingFiles ==
    {[Global |-> Section([classic |-> c, display_banner |-> b, extensions |-> e]),
      InteractiveShell |-> Section([colors |-> col, autocall |-> b])] :
        c \in {NoConfigDefault, VBool(FALSE), VBool(TRUE)},
        col \in {NoConfigDefault, VStr("LightBG")},
        b \in {NoConfigDefault, VBool(FALSE)},
        e \in {NoConfigDefault, VList(SubSeq(ExtensionNames, 1, 1))}}

\* Files that set keys the classic and nosep rules write, or set nosep false.
OverrideFiles ==
    {Config,
     [Global |-> Section([nosep |-> VBool(FALSE), classic |-> VBool(FALSE)]),
      InteractiveShell |-> Section([separate_out |-> VStr("o"), xmode |-> VStr("Verbose"),
                                    autocall |-> VInt(1)])],
     [Global |-> Section([nosep |-> VBool(FALSE)]),
      InteractiveShell |-> Section([separate_out |-> VStr("o"), xmode |-> VStr("Verbose"),
                                    autocall |-> VInt(1)])]}

Inputs ==
    (CommandLines({"-ext"}) \X ActionFiles)
    \cup
    (CommandLines({"-nobanner", "-classic", "-colors", "-quick", "-nosep",
                   "-ext", "-pylab"}) \X SettingFiles)
    \cup
    (CommandLines({"-classic", "-colors", "-si", "-nosep"}) \X OverrideFiles)

Init ==
    /\ pc = "create_default_config"
    /\ \E input \in Inputs : argv = input[1] /\ file_on_disk = input[2]
    /\ default_config = Config
    /\ command_line_config = Config
    /\ file_config = Config
    /\ master_config = Config
    /\ shell = [exists |-> FALSE, display_banner |-> FALSE]
    /\ sys_path = <<>>
    /\ idx = 1
    /\ log = <<>>
    /\ deprecation_warnings = 0

Next ==
    \/ create_default_config
    \/ load_command_line_config
    \/ post_load_command_line_config
    \/ load_file_config
    \/ post_load_file_config
    \/ merge_configs_stage
    \/ pre_construct
    \/ construct
    \/ post_construct
    \/ _load_extensions
    \/ _run_exec_lines
    \/ _run_exec_files
    \/ start_app

Spec == Init /\ [][Next]_vars

\* The pipeline is sequential code: a stage that can run does run.
FairSpec == Spec /\ WF_vars(Next)

(***************************************************************************)
(* Vocabulary of the properties.                                           *)
(***************************************************************************)
\* The order in which pc moves: the passes lie between post_construct and
\* start_app.
PipelineOrder ==
    << "create_default_config", "load_command_line_config",
       "post_load_command_line_config", "load_file_config",
       "post_load_file_config", "merge_configs", "pre_construct",
       "construct", "post_construct", "_load_extensions", "_run_exec_lines",
       "_run_exec_files", "start_app", "mainloop" >>

Rank(p) == CHOOSE i \in 1..Len(PipelineOrder) : PipelineOrder[i] = p

Reached(p) == pc # "aborted" /\ Rank(pc) >= Rank(p)

\* The pass that runs at pc = p has returned.
PassOver(p) == pc # "aborted" /\ Rank(pc) > Rank(p)

Entries(f) == SelectSeq(log, LAMBDA e : e.ev = f)

Args(entries) == [i \in 1..Len(entries) |-> entries[i].arg]

Results(entries) == [i \in 1..Len(entries) |-> entries[i].result]

IsList(key) ==
    /\ hasattr(master_config.Global, key)
    /\ master_config.Global[key].t = "list"

\* In the log, every perform call f that raised is followed by exactly its
\* warning and one traceback display, a call that returned is not followed
\* by the warning, and the warnings naming an action are as many as the
\* raising calls on it.
IsolatedPerAction(f, msg) ==
    /\ \A j \in 1..Len(log) :
          log[j].ev = f =>
             IF log[j].result = "raises"
             THEN /\ j + 2 <= Len(log)
                  /\ log[j + 1] = Warn(msg, log[j].arg)
                  /\ log[j + 2] = showtraceback
             ELSE j < Len(log) => ~(log[j + 1].ev = "log.warn" /\ log[j + 1].msg = msg)
    /\ \A j \in 1..Len(log) :
          (log[j].ev = "log.warn" /\ log[j].msg = msg) =>
             /\ j > 1 /\ log[j - 1].ev = f
             /\ log[j - 1].result = "raises" /\ log[j - 1].arg = log[j].arg

\* Once the pass at p has returned, every action of its list was attempted.
AllAttempted(p, key, f) ==
    (PassOver(p) /\ IsList(key)) => Args(Entries(f)) = master_config.Global[key].l

\* C1: in the extensions pass and in the statements pass, whatever subset of
\* the perform calls raises, every action of the list is attempted, and each
\* raising call logs exactly one warning naming the action and one traceback
\* display, a returning call none.
C1_FailuresIsolated ==
    /\ IsolatedPerAction("load_extension", "Error in loading extension: %s")
    /\ IsolatedPerAction("runlines", "Error in executing line in user namespace: %s")
    /\ AllAttempted("_load_extensions", "extensions", "load_extension")
    /\ AllAttempted("_run_exec_lines", "exec_lines", "runlines")

\* Three extensions, only the middle one raising, and the third loaded;
\* two statements, the first raising.
C1_Witness ==
    /\ PassOver("_run_exec_lines")
    /\ Results(Entries("load_extension")) = <<"ok", "raises", "ok">>
    /\ Results(Entries("runlines")) = <<"raises", "ok">>
    /\ Len(Entries("log.warn")) = 2

\* C2: in the files pass a failure while locating or running one file only
\* skips that file: once the pass has returned, every file of the list has
\* been looked up.
C2_EveryFileAttempted ==
    AllAttempted("_run_exec_files", "exec_files", "filefind")

\* The calls f made so far are the first actions of the list, in its order.
PrefixOfList(key, f) ==
    LET done == Args(Entries(f)) IN
    done # <<>> =>
       /\ IsList(key)
       /\ Len(done) <= Len(master_config.Global[key].l)
       /\ done = SubSeq(master_config.Global[key].l, 1, Len(done))

PassOf(ev) ==
    CASE ev = "load_extension" -> 1
      [] ev = "runlines" -> 2
      [] ev \in {"filefind", "safe_execfile", "safe_execfile_ipy"} -> 3
      [] OTHER -> 0

\* C3: the passes run in the order extensions, statements, files, each list
\* in its own order and each position at most once: the calls of a pass are
\* a prefix of its list, no call of an earlier pass follows a call of a
\* later one, and a pass starts only after the earlier lists were attempted
\* to their last action.
C3_PassOrder ==
    /\ PrefixOfList("extensions", "load_extension")
    /\ PrefixOfList("exec_lines", "runlines")
    /\ PrefixOfList("exec_files", "filefind")
    /\ \A i, j \in 1..Len(log) :
          (i < j /\ PassOf(log[i].ev) > 0 /\ PassOf(log[j].ev) > 0) =>
             PassOf(log[i].ev) <= PassOf(log[j].ev)
    /\ (Entries("runlines") # <<>> /\ IsList("extensions")) =>
          Args(Entries("load_extension")) = master_config.Global.extensions.l
    /\ (Entries("filefind") # <<>> /\ IsList("extensions")) =>
          Args(Entries("load_extension")) = master_config.Global.extensions.l
    /\ (Entries("filefind") # <<>> /\ IsList("exec_lines")) =>
          Args(Entries("runlines")) = master_config.Global.exec_lines.l

C3_Witness ==
    /\ pc = "start_app"
    /\ Len(Entries("load_extension")) = 3
    /\ Len(Entries("runlines")) = 2
    /\ Len(Entries("filefind")) = 3

\* C4: once the shell is constructed the main loop is eventually entered,
\* whatever fails in the passes.
C4_SessionStarts == shell.exists ~> (pc = "mainloop")

\* The main loop entered after an extension and a statement raised and the
\* files pass went through its outer handler.
C4_Witness ==
    /\ pc = "mainloop"
    /\ \E j \in 1..Len(log) : log[j].ev = "load_extension" /\ log[j].result = "raises"
    /\ \E j \in 1..Len(log) : log[j].ev = "runlines" /\ log[j].result = "raises"
    /\ \E j \in 1..Len(log) :
          log[j] = Warn("Unknown error in handling Global.exec_files:", "")

(***************************************************************************)
(* Configuration resolution.                                               *)
(***************************************************************************)
Passed(flag) == \E i \in 1..Len(argv) : argv[i].flag = flag

\* The options that write each command-line key.
OptionFlags ==
    [display_banner  |-> {"-banner", "-nobanner"},
     classic         |-> {"-classic"},
     colors          |-> {"-colors"},
     quick           |-> {"-quick"},
     separate_in     |-> {"-separate_in", "-si"},
     nosep           |-> {"-nosep"},
     extra_extension |-> {"-ext"},
     threaded_shell  |-> {"-pylab", "-wthread", "-qthread", "-q4thread", "-gthread"}]

\* The highest-precedence raw config that holds key k of section s.
Winner(s, k) ==
    IF k \in DOMAIN command_line_config[s] THEN command_line_config
    ELSE IF k \in DOMAIN file_config[s] THEN file_config
    ELSE default_config

\* C5: after the merge every key of the master config holds the value of the
\* highest-precedence source (default < file < command line) that has the
\* key; an option not passed on the command line leaves its key absent from
\* the command-line config, so it overrides nothing; a passed falsy value
\* (-nobanner) is present and overrides the default True.
C5_Precedence ==
    /\ pc = "pre_construct" =>
          \A s \in Sections :
             /\ DOMAIN master_config[s] =
                   DOMAIN default_config[s] \cup DOMAIN file_config[s]
                      \cup DOMAIN command_line_config[s]
             /\ \A k \in DOMAIN master_config[s] :
                   master_config[s][k] = Winner(s, k)[s][k]
    /\ Reached("post_load_command_line_config") =>
          \A s \in Sections : \A k \in DOMAIN command_line_config[s] :
             /\ \E f \in OptionFlags[k] : Passed(f)
             /\ command_line_config[s][k] # NoConfigDefault
    /\ (pc = "pre_construct" /\ Passed("-nobanner")) =>
          /\ default_config.Global.display_banner = VBool(TRUE)
          /\ master_config.Global.display_banner = VBool(FALSE)

\* -nobanner overrides the default, while -colors and -classic, not passed,
\* leave the file's colors and classic in the master config.
C5_Witness ==
    /\ pc = "pre_construct"
    /\ Passed("-nobanner") /\ ~Passed("-colors") /\ ~Passed("-classic")
    /\ master_config.Global.display_banner = VBool(FALSE)
    /\ hasattr(file_on_disk.Global, "classic")
    /\ master_config.Global.classic = file_on_disk.Global.classic
    /\ hasattr(master_config.InteractiveShell, "colors")
    /\ master_config.InteractiveShell.colors = VStr("LightBG")
    /\ master_config.Global.log_level = default_config.Global.log_level

ClassicKeys ==
    {"cache_size", "pprint", "prompt_in1", "prompt_in2", "prompt_out",
     "separate_in", "separate_out", "separate_out2", "colors", "xmode"}

Separators == {"separate_in", "separate_out", "separate_out2"}

ClassicValues ==
    [cache_size    |-> VInt(0),
     pprint        |-> VBool(FALSE),
     prompt_in1    |-> VStr(">>> "),
     prompt_in2    |-> VStr("... "),
     prompt_out    |-> VStr(""),
     separate_in   |-> VStr(""),
     separate_out  |-> VStr(""),
     separate_out2 |-> VStr(""),
     colors        |-> VStr("NoColor"),
     xmode         |-> VStr("Plain")]

On(key) ==
    /\ hasattr(master_config.Global, key)
    /\ master_config.Global[key] \in {VBool(TRUE), VInt(1)}

\* No source sets an InteractiveShell key.
NothingElseOverridden ==
    /\ file_config.InteractiveShell = NoKeys
    /\ command_line_config.InteractiveShell = NoKeys
    /\ default_config.InteractiveShell = NoKeys

\* C6: with Global.classic true, nosep not true and no InteractiveShell key
\* set by any source, the InteractiveShell section after pre_construct holds
\* exactly the ten classic settings, each equal to its classic value.
C6_ClassicSettings ==
    (Reached("construct") /\ On("classic") /\ ~On("nosep") /\ NothingElseOverridden) =>
       /\ DOMAIN master_config.InteractiveShell = ClassicKeys
       /\ \A k \in ClassicKeys :
             PyEq(master_config.InteractiveShell[k], ClassicValues[k])

C6_Witness ==
    /\ pc = "construct"
    /\ On("classic") /\ ~On("nosep") /\ NothingElseOverridden
    /\ Passed("-classic")

\* C7: with Global.classic and Global.nosep both true, the three separators
\* are '0' after pre_construct and the other seven classic keys hold their
\* classic values.
C7_NosepAfterClassic ==
    (Reached("construct") /\ On("classic") /\ On("nosep")) =>
       /\ ClassicKeys \subseteq DOMAIN master_config.InteractiveShell
       /\ \A k \in Separators : master_config.InteractiveShell[k] = VStr("0")
       /\ \A k \in ClassicKeys \ Separators :
             PyEq(master_config.InteractiveShell[k], ClassicValues[k])

C7_Witness ==
    /\ pc = "construct"
    /\ On("classic") /\ On("nosep")
    /\ master_config.InteractiveShell.separate_in = VStr("0")

\* C8: with -quick on the command line the file config is empty after
\* load_file_config, and after the merge every key of the master config
\* comes from the command line or the defaults (or is the extension list
\* that -ext made), whatever the configuration file holds.
C8_QuickIgnoresFile ==
    /\ (pc = "post_load_file_config" /\ Passed("-quick")) => file_config = Config
    /\ (pc = "pre_construct" /\ Passed("-quick")) =>
          \A s \in Sections : \A k \in DOMAIN master_config[s] :
             IF k \in DOMAIN command_line_config[s]
             THEN master_config[s][k] = command_line_config[s][k]
             ELSE IF k \in DOMAIN default_config[s]
             THEN master_config[s][k] = default_config[s][k]
             ELSE /\ s = "Global" /\ k = "extensions" /\ Passed("-ext")
                  /\ master_config[s][k] = VList(<<"x">>)

C8_Witness ==
    /\ pc = "pre_construct"
    /\ Passed("-quick")
    /\ hasattr(file_on_disk.InteractiveShell, "colors")
    /\ hasattr(file_on_disk.Global, "display_banner")
    /\ hasattr(file_on_disk.Global, "classic")

\* The elements of Global.extensions the file config holds when
\* post_load_file_config starts.
Existing ==
    IF Passed("-quick") \/ ~hasattr(file_on_disk.Global, "extensions")
    THEN <<>>
    ELSE file_on_disk.Global.extensions.l

NoExtensionsKey == Passed("-quick") \/ ~hasattr(file_on_disk.Global, "extensions")

\* C9: with -ext x on the command line, post_load_file_config leaves x as the
\* last element of the file config's Global.extensions, after the elements
\* the list had, and removes Global.extra_extension from the command-line
\* config; the master config has no Global.extra_extension, and its extension
\* list is exactly [x] when the file config had no extensions key.
C9_ExtraExtension ==
    /\ (Reached("merge_configs") /\ Passed("-ext")) =>
          /\ hasattr(file_config.Global, "extensions")
          /\ file_config.Global.extensions = VList(Append(Existing, "x"))
          /\ ~hasattr(command_line_config.Global, "extra_extension")
    /\ (Reached("pre_construct") /\ Passed("-ext")) =>
          /\ ~hasattr(master_config.Global, "extra_extension")
          /\ NoExtensionsKey => master_config.Global.extensions = VList(<<"x">>)
          /\ master_config.Global.extensions = VList(Append(Existing, "x"))

C9_Witness ==
    /\ pc = "pre_construct"
    /\ Passed("-ext") /\ ~Passed("-quick")
    /\ ~hasattr(file_on_disk.Global, "extensions")
    /\ hasattr(file_on_disk.Global, "exec_files")
    /\ master_config.Global.extensions = VList(<<"x">>)

PyFiles == {"a.py", "d.py"}
IpyFiles == {"b.ipy", "e.ipy"}

NoExtensionWarning(f) ==
    Warn("File does not have a .py or .ipy extension: <%s>", f)

Only(names, S) == SelectSeq(names, LAMBDA f : f \in S)

\* C10: a located .py file is passed to safe_execfile, a located .ipy file to
\* safe_execfile_ipy, a located file of another extension only gets the
\* warning; nothing else is executed; when no lookup and no execution fails,
\* every .py and .ipy file of the list has been dispatched when the pass
\* returns; and no exception leaves the pass.
C10_DispatchByExtension ==
    /\ \A j \in 1..Len(log) :
          (log[j].ev = "filefind" /\ log[j].result = "file") =>
             /\ j < Len(log)
             /\ IF log[j].arg \in PyFiles
                THEN log[j + 1].ev = "safe_execfile" /\ log[j + 1].arg = log[j].arg
                ELSE IF log[j].arg \in IpyFiles
                THEN log[j + 1].ev = "safe_execfile_ipy" /\ log[j + 1].arg = log[j].arg
                ELSE log[j + 1] = NoExtensionWarning(log[j].arg)
    /\ \A j \in 1..Len(log) :
          log[j].ev \in {"safe_execfile", "safe_execfile_ipy"} =>
             /\ j > 1
             /\ log[j - 1] = Call("filefind", log[j].arg, "file")
             /\ log[j].ev = "safe_execfile" => log[j].arg \in PyFiles
             /\ log[j].ev = "safe_execfile_ipy" => log[j].arg \in IpyFiles
    /\ ( /\ PassOver("_run_exec_files")
         /\ IsList("exec_files")
         /\ \A j \in 1..Len(log) :
               /\ log[j].ev = "filefind" => log[j].result = "file"
               /\ log[j].ev \in {"safe_execfile", "safe_execfile_ipy"} =>
                     log[j].result = "ok" )
       => /\ Args(Entries("safe_execfile")) =
                Only(master_config.Global.exec_files.l, PyFiles)
          /\ Args(Entries("safe_execfile_ipy")) =
                Only(master_config.Global.exec_files.l, IpyFiles)
    /\ shell.exists => pc # "aborted"

\* One file of each kind: both scripts dispatched, one warning for c.txt.
C10_Witness ==
    /\ pc = "start_app"
    /\ Args(Entries("filefind")) = <<"a.py", "c.txt", "b.ipy">>
    /\ Entries("safe_execfile") = <<Call("safe_execfile", "a.py", "ok")>>
    /\ Entries("safe_execfile_ipy") = <<Call("safe_execfile_ipy", "b.ipy", "ok")>>
    /\ Entries("log.warn") = <<NoExtensionWarning("c.txt")>>

(***************************************************************************)
(* The banner and the stage order.                                         *)
(***************************************************************************)
\* C11: once post_construct has run, the shell's own banner display is off,
\* show_banner was called exactly once if Global.display_banner is true in
\* the master config and never if it is false, and that call precedes every
\* extension load, statement and file; before post_construct it is not
\* called at all.
C11_BannerFirst ==
    /\ Reached("_load_extensions") =>
          /\ shell.display_banner = FALSE
          /\ Len(Entries("show_banner")) =
                (IF master_config.Global.display_banner = VBool(TRUE) THEN 1 ELSE 0)
          /\ \A j \in 1..Len(log) : log[j].ev = "show_banner" => j = 1
    /\ ~Reached("_load_extensions") => log = <<>>

\* The banner shown, then an extension, a statement and a file handled.
C11_Witness ==
    /\ pc = "mainloop"
    /\ log[1].ev = "show_banner"
    /\ Entries("load_extension") # <<>>
    /\ Entries("runlines") # <<>>
    /\ Entries("filefind") # <<>>

\* The stage of the design that pc stands in: the merge belongs to
\* PreConstruct, the three passes to PostConstruct.
StageOf(p) ==
    CASE p = "create_default_config"         -> 1
      [] p = "load_command_line_config"      -> 2
      [] p = "post_load_command_line_config" -> 3
      [] p = "load_file_config"              -> 4
      [] p = "post_load_file_config"         -> 5
      [] p \in {"merge_configs", "pre_construct"} -> 6
      [] p = "construct"                     -> 7
      [] p \in {"post_construct", "_load_extensions", "_run_exec_lines",
                "_run_exec_files"}           -> 8
      [] p = "start_app"                     -> 9
      [] p = "mainloop"                      -> 10
      [] OTHER                               -> 0

\* C12: the stages run in the order CreateDefaults, LoadCommandLine,
\* PostCommandLine, LoadFile, PostFile, PreConstruct, Construct,
\* PostConstruct, Run: a step stays in its stage or moves to the next one
\* (or aborts), never back, so no stage runs twice or before its
\* predecessor; each stage's effect appears with its stage; and the master
\* config is written by the merge and by the classic/nosep rules only, once
\* each, the rules after the merge and before the shell exists.
C12_StageOrder ==
    /\ [][ /\ pc' # pc => \/ pc' = "aborted"
                          \/ Rank(pc') = Rank(pc) + 1
           /\ pc' # "aborted" => StageOf(pc') \in {StageOf(pc), StageOf(pc) + 1}
           /\ pc = "aborted" => pc' = "aborted"
           /\ master_config' # master_config => pc \in {"merge_configs", "pre_construct"}
           /\ shell'.exists # shell.exists => pc = "construct"
           /\ sys_path' # sys_path => pc = "construct"
           /\ default_config' # default_config => pc = "create_default_config"
           /\ file_config' # file_config =>
                 pc \in {"load_file_config", "post_load_file_config"}
           /\ command_line_config' # command_line_config =>
                 pc \in {"load_command_line_config", "post_load_command_line_config",
                         "post_load_file_config"}
           /\ log' # log => StageOf(pc) \in {8, 9} ]_vars
    /\ [](Len(sys_path) <= 1 /\ deprecation_warnings <= 1)
    /\ [](shell.exists => Reached("post_construct"))

\* The main loop entered with the classic rule's colors in the master config
\* although the command line asked for Linux.
C12_Witness ==
    /\ pc = "mainloop"
    /\ shell.exists
    /\ Passed("-classic") /\ Passed("-colors")
    /\ master_config.InteractiveShell.colors = VStr("NoColor")
    /\ Len(sys_path) = 1

(***************************************************************************)
(* Failures: a fatal stage, the outer guard of a pass, an absent key.      *)
(***************************************************************************)
\* construct was entered (it has put '' in front of sys.path) and raised.
ConstructFailed == pc = "aborted" /\ Len(sys_path) = 1

\* C13: a failure during construct is fatal: the application is then in a
\* terminal state with no shell, no banner shown, no extension, statement or
\* file action attempted and the main loop not entered; and whatever of
\* these happens, happens to a shell that was built.
C13_ConstructFatal ==
    /\ ConstructFailed =>
          /\ ~shell.exists
          /\ log = <<>>
          /\ ~ENABLED Next
    /\ (Reached("post_construct") \/ log # <<>>) => shell.exists

C13_Witness ==
    /\ ConstructFailed
    /\ Truthy(master_config.Global.display_banner)
    /\ hasattr(master_config.Global, "extensions")
    /\ master_config.Global.extensions.l # <<>>

(***************************************************************************)
(* Resolution of empty sources.                                            *)
(***************************************************************************)
\* C14: a command line with every option left unset gives an empty
\* command-line config, and an empty file config and an empty command-line
\* config resolved against the (non-empty) default config give a master
\* config equal to the default config, which pre_construct leaves so.
C14_EmptySourcesGiveDefault ==
    /\ (argv = <<>> /\ Reached("post_load_command_line_config")) =>
          command_line_config = Config
    /\ (Reached("pre_construct") /\ file_config = Config
                                 /\ command_line_config = Config) =>
          /\ default_config # Config
          /\ master_config = default_config

C14_Witness ==
    /\ pc = "mainloop"
    /\ argv = <<>>
    /\ file_on_disk = Config
    /\ file_config = Config
    /\ command_line_config = Config
    /\ master_config = DefaultConfig

\* The three passes: where each runs, the key it reads, the message of its
\* outer handler, the calls it makes, the first of them on each action, and
\* the warnings it logs about one action.
Passes ==
    << [pc |-> "_load_extensions", key |-> "extensions",
        msg |-> "Unknown error in loading extensions:",
        first |-> "load_extension", calls |-> {"load_extension"},
        warns |-> {"Error in loading extension: %s"}],
       [pc |-> "_run_exec_lines", key |-> "exec_lines",
        msg |-> "Unknown error in handling Global.exec_lines:",
        first |-> "runlines", calls |-> {"runlines"},
        warns |-> {"Error in executing line in user namespace: %s"}],
       [pc |-> "_run_exec_files", key |-> "exec_files",
        msg |-> "Unknown error in handling Global.exec_files:",
        first |-> "filefind",
        calls |-> {"filefind", "safe_execfile", "safe_execfile_ipy"},
        warns |-> {"File does not have a .py or .ipy extension: <%s>"}] >>

\* Where the log holds the outer handler's warning msg.
UnknownAt(msg) == {j \in 1..Len(log) : log[j] = Warn(msg, "")}

\* The key of pass i is present in the master config and is not a list.
Malformed(i) ==
    /\ hasattr(master_config.Global, Passes[i].key)
    /\ ~Iterable(master_config.Global[Passes[i].key])

\* Pass i has returned and its list is a non-empty list.
HadActions(i) ==
    /\ PassOver(Passes[i].pc)
    /\ IsList(Passes[i].key)
    /\ master_config.Global[Passes[i].key].l # <<>>

\* Pass i made its first call on the first action of its list.
Started(i) ==
    \E j \in 1..Len(log) :
       /\ log[j].ev = Passes[i].first
       /\ log[j].arg = master_config.Global[Passes[i].key].l[1]

\* C15: a pass logs its 'unknown error' warning at most once, with one
\* traceback display, and makes no call after it (the remaining actions are
\* abandoned); a pass whose list is not iterable logs it exactly once and
\* makes no call at all; no pass aborts the application; and a pass with a
\* non-empty list starts on its first action whatever the outer guards of
\* the earlier passes caught.
C15_OuterGuard ==
    /\ \A i \in 1..Len(Passes) :
          /\ Cardinality(UnknownAt(Passes[i].msg)) <= 1
          /\ \A j \in UnknownAt(Passes[i].msg) :
                /\ j < Len(log)
                /\ log[j + 1] = showtraceback
                /\ \A k \in j..Len(log) : log[k].ev \notin Passes[i].calls
          /\ (PassOver(Passes[i].pc) /\ Malformed(i)) =>
                /\ Cardinality(UnknownAt(Passes[i].msg)) = 1
                /\ \A k \in 1..Len(log) : log[k].ev \notin Passes[i].calls
          /\ HadActions(i) => Started(i)
    /\ shell.exists => pc # "aborted"

\* The extensions and the statements passes both stopped by their outer
\* guard, and the files pass run to a script's execution.
C15_Witness ==
    /\ pc = "mainloop"
    /\ Malformed(1)
    /\ Malformed(2)
    /\ UnknownAt(Passes[1].msg) # {}
    /\ UnknownAt(Passes[2].msg) # {}
    /\ HadActions(3)
    /\ Entries("safe_execfile") # <<>>

\* The key of pass i is absent from the master config.
Absent(i) == ~hasattr(master_config.Global, Passes[i].key)

\* The log holds nothing of pass i: no call and no warning of it.
Silent(i) ==
    \A j \in 1..Len(log) :
       /\ log[j].ev \notin Passes[i].calls
       /\ log[j].ev = "log.warn" =>
             log[j].msg \notin Passes[i].warns \cup {Passes[i].msg}

\* C16: a pass whose Global key is absent is a silent no-op: its step leaves
\* the log as it is and hands over to what follows it; the log never holds a
\* call or a warning of it, nor a traceback display without a warning before
\* it; and a later pass with a non-empty list still starts on its first
\* action.
C16_AbsentKeyNoOp ==
    /\ [][ \A i \in 1..Len(Passes) :
              (pc = Passes[i].pc /\ Absent(i)) =>
                 /\ log' = log
                 /\ pc' = PipelineOrder[Rank(pc) + 1] ]_vars
    /\ [](\A i \in 1..Len(Passes) : Absent(i) => Silent(i))
    /\ [](\A j \in 1..Len(log) :
             log[j] = showtraceback => (j > 1 /\ log[j - 1].ev = "log.warn"))
    /\ [](\A i \in 1..Len(Passes) : \A k \in (i + 1)..Len(Passes) :
             (Absent(i) /\ HadActions(k)) => Started(k))

\* No extensions key and no exec_lines key, and the files pass has run.
C16_Witness ==
    /\ pc = "mainloop"
    /\ Absent(1)
    /\ Absent(2)
    /\ HadActions(3)
    /\ Entries("filefind") # <<>>
    /\ Silent(1)
    /\ Silent(2)

(***************************************************************************)
(* Derived rules of the stages around the merge.                           *)
(***************************************************************************)
\* C17: the command-line config entering post_load_command_line_config has
\* Global.threaded_shell exactly when one of the threaded-shell options was
\* passed; the stage then adds one deprecation warning and removes that key
\* and no other, and otherwise adds none and leaves the command-line config
\* as it is; no other step warns, so the warning is emitted at most once;
\* and the key is in no config that reaches the merge nor in the master
\* config.
C17_ThreadedShellRemoved ==
    /\ [][ IF pc = "post_load_command_line_config"
           THEN /\ hasattr(command_line_config.Global, "threaded_shell") <=> Passed("-pylab")
                /\ IF hasattr(command_line_config.Global, "threaded_shell")
                   THEN /\ deprecation_warnings' = deprecation_warnings + 1
                        /\ DOMAIN command_line_config'.Global =
                              DOMAIN command_line_config.Global \ {"threaded_shell"}
                        /\ \A k \in DOMAIN command_line_config'.Global :
                              command_line_config'.Global[k] = command_line_config.Global[k]
                        /\ command_line_config'.InteractiveShell =
                              command_line_config.InteractiveShell
                   ELSE /\ deprecation_warnings' = deprecation_warnings
                        /\ command_line_config' = command_line_config
           ELSE deprecation_warnings' = deprecation_warnings ]_vars
    /\ [](deprecation_warnings \in {0, 1})
    /\ [](Reached("load_file_config") =>
             /\ deprecation_warnings = (IF Passed("-pylab") THEN 1 ELSE 0)
             /\ ~hasattr(command_line_config.Global, "threaded_shell"))
    /\ [](~hasattr(master_config.Global, "threaded_shell"))

\* -pylab passed with another option, warned about once, and only the other
\* option in the master config.
C17_Witness ==
    /\ pc = "mainloop"
    /\ Passed("-pylab")
    /\ Passed("-quick")
    /\ deprecation_warnings = 1
    /\ hasattr(master_config.Global, "quick")
    /\ ~hasattr(master_config.Global, "threaded_shell")

\* A source set the InteractiveShell key k to something else than its
\* classic value.
SetOtherwise(k) ==
    \/ /\ hasattr(command_line_config.InteractiveShell, k)
       /\ ~PyEq(command_line_config.InteractiveShell[k], ClassicValues[k])
    \/ /\ hasattr(file_config.InteractiveShell, k)
       /\ ~PyEq(file_config.InteractiveShell[k], ClassicValues[k])

\* C18: with Global.classic true in the master config, after pre_construct
\* every classic-controlled key is present and holds its classic value,
\* whatever the command line or the file set it to, except that the three
\* separators hold '0' instead exactly when Global.nosep is true.
C18_ClassicWins ==
    (Reached("construct") /\ On("classic")) =>
       \A k \in ClassicKeys :
          /\ hasattr(master_config.InteractiveShell, k)
          /\ IF k \in Separators /\ On("nosep")
             THEN master_config.InteractiveShell[k] = VStr("0")
             ELSE PyEq(master_config.InteractiveShell[k], ClassicValues[k])

\* -classic with -colors Linux and -si, over a file that sets xmode and
\* separate_out and sets nosep false: all four keys hold their classic value.
C18_Witness ==
    /\ pc = "construct"
    /\ On("classic")
    /\ hasattr(master_config.Global, "nosep") /\ ~On("nosep")
    /\ Passed("-colors") /\ Passed("-si")
    /\ \A k \in {"colors", "separate_in", "separate_out", "xmode"} : SetOtherwise(k)
    /\ master_config.InteractiveShell.colors = VStr("NoColor")
    /\ master_config.InteractiveShell.separate_in = VStr("")

\* C19: with -quick and -ext x both on the command line, the file config is
\* empty when post_load_file_config starts, whatever the file holds, and
\* holds nothing but Global.extensions = [x] after it; the master config's
\* extension list is [x]; no extension but x is ever loaded and x is, once;
\* and neither file stage aborts.
C19_QuickThenExtra ==
    (Passed("-quick") /\ Passed("-ext")) =>
       /\ pc = "aborted" => ConstructFailed
       /\ pc = "post_load_file_config" => file_config = Config
       /\ Reached("merge_configs") =>
             /\ DOMAIN file_config.Global = {"extensions"}
             /\ file_config.Global.extensions = VList(<<"x">>)
             /\ file_config.InteractiveShell = NoKeys
       /\ Reached("pre_construct") =>
             master_config.Global.extensions = VList(<<"x">>)
       /\ \A j \in 1..Len(log) : log[j].ev = "load_extension" => log[j].arg = "x"
       /\ PassOver("_load_extensions") => Args(Entries("load_extension")) = <<"x">>

\* The file names extension a; only x was loaded.
C19_Witness ==
    /\ pc = "mainloop"
    /\ Passed("-quick") /\ Passed("-ext")
    /\ hasattr(file_on_disk.Global, "extensions")
    /\ file_on_disk.Global.extensions = VList(<<"a">>)
    /\ Args(Entries("load_extension")) = <<"x">>

\* The InteractiveShell keys outside S are the same, with the same values,
\* before and after the step.
SameOutside(S) ==
    /\ DOMAIN master_config'.InteractiveShell \ S =
          DOMAIN master_config.InteractiveShell \ S
    /\ \A k \in DOMAIN master_config.InteractiveShell \ S :
          master_config'.InteractiveShell[k] = master_config.InteractiveShell[k]

\* C20: the pre_construct step leaves the Global section and every
\* InteractiveShell key outside the ten classic-controlled keys as they
\* were, and adds no key outside them; with Global.classic and Global.nosep
\* each absent or false it leaves the master config unchanged; with only
\* nosep true it changes nothing but the three separators.
C20_PreConstructFrame ==
    [][ pc = "pre_construct" =>
           /\ master_config'.Global = master_config.Global
           /\ SameOutside(ClassicKeys)
           /\ (~On("classic") /\ ~On("nosep")) => master_config' = master_config
           /\ (~On("classic") /\ On("nosep")) =>
                 /\ SameOutside(Separators)
                 /\ \A k \in Separators :
                       master_config'.InteractiveShell[k] = VStr("0") ]_vars

\* classic and nosep both present and false, over a file that sets a
\* separator, xmode and a key no rule names: pre_construct left the merge's
\* result as it was.
C20_Witness ==
    /\ pc = "construct"
    /\ hasattr(master_config.Global, "classic") /\ ~On("classic")
    /\ hasattr(master_config.Global, "nosep") /\ ~On("nosep")
    /\ master_config = merge_configs(default_config, file_config, command_line_config)
    /\ master_config.InteractiveShell.separate_out = VStr("o")
    /\ master_config.InteractiveShell.xmode = VStr("Verbose")
    /\ master_config.InteractiveShell.autocall = VInt(1)

====
